---------------------------- MODULE Spec2Model ----------------------------
(***************************************************************************)
(* State-machine model of the authentication core of software_tester:      *)
(*   api/auth/auth_engines  (engine registry, EmailAuthEngine, token pair) *)
(*   api/middleware.py      (lazy per-request identity descriptors)        *)
(*   api/views.py           (AuthRegisterView)                             *)
(*   api/models.py          (AbstractUser passwords, RefreshToken)         *)
(*   api/logging.py         (AppContextFilter)                             *)
(* Library calls (PyJWT, django.contrib.auth.hashers, SQLAlchemy) are      *)
(* modelled by their documented behaviour at the call sites.               *)
(***************************************************************************)
EXTENDS Integers, Sequences, FiniteSets, TLC

VARIABLES
    users,          \* table app_role_abstract_user: user_id -> row
    refreshTokens,  \* table app_refresh_token: set of rows, primary key "value"
    settings,       \* SettingsValue storage: the two token timeouts, minutes
    clock,          \* wall clock (datetime.utcnow), whole seconds
    events,         \* number of logins and environment steps so far (bounds the run)
    issued,         \* history: every token _create_token_pair has returned
    attached,       \* descriptors AppAuthMiddleware has put on the request class
    request,        \* the request being served (instance __dict__ and META)
    peer,           \* another request in flight, waiting for its turn to run
    tasks,          \* celery default queue: argument tuples of enqueued tasks
    rateRecords,    \* table app_exchange_rates_record: the rows, oldest first
    lastOp          \* history: what the step just taken did and returned

vars == <<users, refreshTokens, settings, clock, events, issued,
          attached, request, peer, tasks, rateRecords, lastOp>>

---------------------------------------------------------------------------
(* Bounds of the model *)

MaxEvents == 3
MaxReads == 3

(* Program constants *)

AccessTokenTimeoutDefault == 4320
RefreshTokenTimeoutDefault == 43200
SecondsPerMinute == 60

---------------------------------------------------------------------------
(* Strings are sequences of characters, so that str.lower() is computed.   *)

LowerMap ==
    ("A" :> "a") @@ ("B" :> "b") @@ ("C" :> "c") @@ ("E" :> "e") @@
    ("I" :> "i") @@ ("L" :> "l") @@ ("M" :> "m") @@ ("S" :> "s")

LowerChar(c) == IF c \in DOMAIN LowerMap THEN LowerMap[c] ELSE c

lower(s) == [i \in DOMAIN s |-> LowerChar(s[i])]

---------------------------------------------------------------------------
(* Users and passwords *)

UserIds == {1, 2, 3, 4}
NoUser == 0

Passwords == {"good", "weak", "other"}

\* password_hash column: NULL, or make_password(raw) in some hasher format.
\* "old" is a format the preferred hasher reports as must_update.
NoHash == [raw |-> "", fmt |-> "unset"]
make_password(raw) == [raw |-> raw, fmt |-> "new"]

\* django validate_password(raw, user) under AUTH_PASSWORD_VALIDATORS:
\* TRUE when no validator rejects the password.
validate_password(raw) == raw # "weak"

\* str(uuid) and lamb transform_uuid, its inverse on well-formed strings.
NoStr == <<>>
str(user_id) == <<"uuid", user_id>>
IsUuidStr(s) == Len(s) = 2 /\ s[1] = "uuid" /\ s[2] \in UserIds
transform_uuid(s) == s[2]

\* The stored users: one whose hash is due for an upgrade, one with a
\* current hash, one without a password, and one whose hash is due for an
\* upgrade and whose password the validators now reject.
UserType == {"SUPER_ADMIN", "OPERATOR", "USER"}

\* A row of app_role_abstract_user: the columns the code reads.
UserRow(email, password_hash, user_type, is_email_confirmed, is_confirmed, is_blocked) ==
    [email |-> email, password_hash |-> password_hash, user_type |-> user_type,
     is_email_confirmed |-> is_email_confirmed, is_confirmed |-> is_confirmed,
     is_blocked |-> is_blocked]

InitUsers ==
    (1 :> UserRow(<<"a">>, [raw |-> "good", fmt |-> "old"], "SUPER_ADMIN", TRUE, TRUE, FALSE)) @@
    (2 :> UserRow(<<"b">>, make_password("other"), "OPERATOR", TRUE, TRUE, FALSE)) @@
    (3 :> UserRow(<<"c">>, NoHash, "USER", FALSE, FALSE, FALSE)) @@
    (4 :> UserRow(<<"e">>, [raw |-> "weak", fmt |-> "old"], "OPERATOR", TRUE, TRUE, FALSE))

Emails == {<<"a">>, <<"A">>, <<"b">>, <<"c">>, <<"e">>, <<"z">>}
Credentials == [email : Emails, password : Passwords]

---------------------------------------------------------------------------
(* Tokens.  A raw header value is absent, not a JWT at all, or a JWT with  *)
(* an algorithm, a signature that does or does not verify under            *)
(* APP_JWT_SECRET_KEY, and claims.  nbf = -1 means the claim is absent.    *)

TimeoutChoices == {AccessTokenTimeoutDefault, RefreshTokenTimeoutDefault}

FarFuture == (MaxEvents + 2) * RefreshTokenTimeoutDefault * SecondsPerMinute

NoneToken ==
    [form |-> "none", alg |-> "", sig |-> FALSE, user_id |-> NoStr,
     exp |-> 0, nbf |-> -1, aud |-> FALSE]

\* jwt.encode(payload, APP_JWT_SECRET_KEY, algorithm=APP_JWT_ALGORITHM):
\* deterministic in the payload; exp is written as whole seconds.
jwt_encode(payload) ==
    [form |-> "jwt", alg |-> "HS256", sig |-> TRUE, user_id |-> payload.user_id,
     exp |-> payload.exp, nbf |-> -1, aud |-> FALSE]

MalformedToken == [NoneToken EXCEPT !.form = "malformed"]
SomeJwt == jwt_encode([user_id |-> str(1), exp |-> FarFuture])
BadSignatureToken == [SomeJwt EXCEPT !.sig = FALSE]
ImmatureToken == [SomeJwt EXCEPT !.nbf = FarFuture]

\* Header values that _create_token_pair did not make: not a JWT, a JWT
\* with a forged signature, and a JWT another holder of the secret signed
\* with a not-before claim.
ForeignTokens == {MalformedToken, BadSignatureToken, ImmatureToken}

NoPayload == [user_id |-> NoStr, exp |-> 0]

\* jwt.decode(token, key, algorithms=[APP_JWT_ALGORITHM]): the exception it
\* raises ("none" when it returns) and the payload it returns.
jwt_decode(token, now) ==
    LET exc ==
            IF token.form # "jwt" THEN "DecodeError"
            ELSE IF token.alg # "HS256" THEN "InvalidAlgorithmError"
            ELSE IF ~token.sig THEN "InvalidSignatureError"
            ELSE IF token.nbf # -1 /\ token.nbf > now THEN "ImmatureSignatureError"
            ELSE IF token.exp <= now THEN "ExpiredSignatureError"
            ELSE IF token.aud THEN "InvalidAudienceError"
            ELSE "none"
    IN  [exc |-> exc,
         payload |-> IF exc = "none"
                     THEN [user_id |-> token.user_id, exp |-> token.exp]
                     ELSE NoPayload]

\* A token pair whose two timeouts are exchanged.
create_token_pair_swapped(user_id, now, conf) ==
    LET user_id_str == str(user_id)
    IN  [access |-> jwt_encode([user_id |-> user_id_str,
                      exp |-> now + conf.refresh_token_timeout * SecondsPerMinute]),
         refresh |-> jwt_encode([user_id |-> user_id_str,
                      exp |-> now + conf.access_token_timeout * SecondsPerMinute])]

\* A token pair whose refresh token is signed with a key of its own.
create_token_pair_two_keys(user_id, now, conf) ==
    LET user_id_str == str(user_id)
        refresh == jwt_encode([user_id |-> user_id_str,
                      exp |-> now + conf.refresh_token_timeout * SecondsPerMinute])
    IN  [access |-> jwt_encode([user_id |-> user_id_str,
                      exp |-> now + conf.access_token_timeout * SecondsPerMinute]),
         refresh |-> [refresh EXCEPT !.sig = FALSE]]

\* AbstractAuthEngine._create_token_pair: both expiries are "now" plus the
\* timeout the settings hold when the pair is made.
create_token_pair(user_id, now, conf) ==
    LET user_id_str == str(user_id)
    IN  [access |-> jwt_encode([user_id |-> user_id_str,
                      exp |-> now + conf.access_token_timeout * SecondsPerMinute]),
         refresh |-> jwt_encode([user_id |-> user_id_str,
                      exp |-> now + conf.refresh_token_timeout * SecondsPerMinute])]

---------------------------------------------------------------------------
(* Passwords: AbstractUser.set_password / check_password *)

\* AbstractUser.set_password: validate, then store the new hash.
set_password(row, raw_password) ==
    IF ~validate_password(raw_password)
    THEN [exc |-> "InvalidParamValueError", row |-> row]
    ELSE [exc |-> "none", row |-> [row EXCEPT !.password_hash = make_password(raw_password)]]

\* AbstractUser.check_password through django check_password(raw, encoded,
\* setter).  With encoded = None django's identify_hasher takes len(None)
\* and raises TypeError.  The setter runs set_password outside its try
\* block; only the commit is guarded.
check_password(row, raw_password) ==
    LET encoded == row.password_hash
        is_correct == encoded.raw = raw_password
        must_update == encoded.fmt = "old"
        set == set_password(row, raw_password)
    IN  IF encoded = NoHash
        THEN [exc |-> "TypeError", result |-> FALSE, row |-> row]
        ELSE IF is_correct /\ must_update
        THEN [exc |-> set.exc, result |-> (set.exc = "none"), row |-> set.row]
        ELSE [exc |-> "none", result |-> is_correct, row |-> row]

---------------------------------------------------------------------------
(* EmailAuthEngine *)

InvalidCredentialsMessage == "User password or email is not valid"

\* EmailAuthEngine._get_info: the user whose email equals the lowercased
\* credential email, NoUser when the query finds none.
get_info(credentials, db_users) ==
    LET email == lower(credentials.email)
        found == {u \in DOMAIN db_users : db_users[u].email = email}
    IN  [email |-> email, password |-> credentials.password,
         user |-> IF found = {} THEN NoUser ELSE CHOOSE u \in found : TRUE]

AuthFailure(exc, msg, db_users, db_tokens) ==
    [exc |-> exc, msg |-> msg, access |-> NoneToken, refresh |-> NoneToken,
     user |-> NoUser, users |-> db_users, refreshTokens |-> db_tokens]

\* An authenticate that adds and commits the RefreshToken row before it
\* checks the password.
authenticate_insert_first(credentials, db_users, db_tokens, now, conf) ==
    LET info == get_info(credentials, db_users)
    IN  IF info.user = NoUser
        THEN AuthFailure("AuthCredentialsInvalid", InvalidCredentialsMessage,
                         db_users, db_tokens)
        ELSE
        LET chk == check_password(db_users[info.user], info.password)
            users1 == [db_users EXCEPT ![info.user] = chk.row]
            pair == create_token_pair(info.user, now, conf)
            token == [value |-> pair.refresh, user_id |-> info.user]
        IN  IF \E t \in db_tokens : t.value = token.value
            THEN AuthFailure("IntegrityError", "", db_users, db_tokens)
            ELSE IF chk.exc # "none"
            THEN AuthFailure(chk.exc, "", users1, db_tokens \cup {token})
            ELSE IF ~chk.result
            THEN AuthFailure("AuthCredentialsInvalid", InvalidCredentialsMessage,
                             users1, db_tokens \cup {token})
            ELSE [exc |-> "none", msg |-> "", access |-> pair.access,
                  refresh |-> pair.refresh, user |-> info.user,
                  users |-> users1, refreshTokens |-> db_tokens \cup {token}]

\* EmailAuthEngine.authenticate.  The RefreshToken insert violates the
\* primary key when a row with the same value exists: the commit raises.
authenticate(credentials, db_users, db_tokens, now, conf) ==
    LET info == get_info(credentials, db_users)
    IN  IF info.user = NoUser
        THEN AuthFailure("AuthCredentialsInvalid", InvalidCredentialsMessage,
                         db_users, db_tokens)
        ELSE
        LET chk == check_password(db_users[info.user], info.password)
            users1 == [db_users EXCEPT ![info.user] = chk.row]
            pair == create_token_pair(info.user, now, conf)
            token == [value |-> pair.refresh, user_id |-> info.user]
        IN  IF chk.exc # "none"
            THEN AuthFailure(chk.exc, "", users1, db_tokens)
            ELSE IF ~chk.result
            THEN AuthFailure("AuthCredentialsInvalid", InvalidCredentialsMessage,
                             users1, db_tokens)
            ELSE IF \E t \in db_tokens : t.value = token.value
            THEN AuthFailure("IntegrityError", "", users1, db_tokens)
            ELSE [exc |-> "none", msg |-> "", access |-> pair.access,
                  refresh |-> pair.refresh, user |-> info.user,
                  users |-> users1, refreshTokens |-> db_tokens \cup {token}]

---------------------------------------------------------------------------
(* Engine construction and capabilities (auth_engines/abstract.py) *)

\* What a caller can hand to an engine constructor: a SQLAlchemy session,
\* None, or some other object.
LiveSession == "Session"
DbSessions == {LiveSession, "None", "str"}
isinstance_SASession(db_session) == db_session = LiveSession

NoEngine == [class |-> "none", db_session |-> "None"]

\* A constructor that stores whatever it is given.
AbstractAuthEngine_init_unchecked(class, db_session) ==
    [exc |-> "none", engine |-> [class |-> class, db_session |-> db_session]]

\* AbstractAuthEngine.__init__: ServerError unless db_session is a Session;
\* the raise leaves the caller without an engine object.
AbstractAuthEngine_init(class, db_session) ==
    IF isinstance_SASession(db_session)
    THEN [exc |-> "none", engine |-> [class |-> class, db_session |-> db_session]]
    ELSE [exc |-> "ServerError", engine |-> NoEngine]

Capabilities ==
    {"authenticate", "register_user", "resend_confirm", "confirm",
     "restore_request", "restore_confirm", "bounded"}

\* A base class that reports confirm as planned instead of unsupported.
AbstractAuthEngine_raises_confirm_planned(cap) ==
    IF cap \in {"authenticate", "register_user", "bounded", "confirm"}
    THEN "NotRealizedMethodError"
    ELSE "NotAllowedMethodError"

\* What each method of AbstractAuthEngine raises.
AbstractAuthEngine_raises(cap) ==
    IF cap \in {"authenticate", "register_user", "bounded"}
    THEN "NotRealizedMethodError"
    ELSE "NotAllowedMethodError"

\* The methods EmailAuthEngine defines itself.
EmailAuthEngine_overrides == {"authenticate", "bounded"}

\* email column: NULL
NoEmail == <<>>

\* EmailAuthEngine.bounded
EmailAuthEngine_bounded(user) == user.email # NoEmail

\* A capability of EmailAuthEngine called with its argument: the exception
\* or the result, and the storage afterwards.
EmailAuthEngine_call(cap, credentials, user, db_users, db_tokens, now, conf) ==
    LET auth == authenticate(credentials, db_users, db_tokens, now, conf)
        idle == AuthFailure("none", "", db_users, db_tokens)
    IN  IF cap \notin EmailAuthEngine_overrides
        THEN [exc |-> AbstractAuthEngine_raises(cap), result |-> FALSE, auth |-> idle,
              users |-> db_users, refreshTokens |-> db_tokens]
        ELSE IF cap = "authenticate"
        THEN [exc |-> auth.exc, result |-> auth.exc = "none", auth |-> auth,
              users |-> auth.users, refreshTokens |-> auth.refreshTokens]
        ELSE [exc |-> "none", result |-> EmailAuthEngine_bounded(user), auth |-> idle,
              users |-> db_users, refreshTokens |-> db_tokens]

---------------------------------------------------------------------------
(* Engine registry *)

EmailIdentity == <<"e", "m", "a", "i", "l">>

\* api/auth/auth_engines/__init__.py: lowercased identity -> engine class
auth_engine_identity_map ==
    [n \in {lower(EmailIdentity)} |-> "EmailAuthEngine"]

\* Engine names a request body may carry: the spellings of "email" and
\* names of no registered engine.
EmailSpellings ==
    {<<"e", "m", "a", "i", "l">>, <<"E", "M", "A", "I", "L">>,
     <<"E", "m", "a", "i", "l">>, <<"e", "M", "a", "I", "l">>}
UnknownEngines == {<<"s", "m", "s">>, <<"S", "M", "S">>, <<"m", "a", "i", "l">>}
EngineNames == EmailSpellings \cup UnknownEngines

\* An engine selection that compares the name as it was sent.
get_auth_engine_case_sensitive(parsed_body) ==
    LET engine_name == parsed_body.engine
    IN  IF engine_name \in DOMAIN auth_engine_identity_map
        THEN [exc |-> "none", class |-> auth_engine_identity_map[engine_name]]
        ELSE [exc |-> "InvalidParamValueError", class |-> "none"]

\* views._get_auth_engine: the class, or "none" with InvalidParamValueError
get_auth_engine(parsed_body) ==
    LET engine_name == lower(parsed_body.engine)
    IN  IF engine_name \in DOMAIN auth_engine_identity_map
        THEN [exc |-> "none", class |-> auth_engine_identity_map[engine_name]]
        ELSE [exc |-> "InvalidParamValueError", class |-> "none"]

---------------------------------------------------------------------------
(* The request and its lazy identity stages (api/middleware.py) *)

Stages == {"token", "payload", "user_id", "user"}
StageNo == [s \in Stages |->
              CASE s = "token" -> 1 [] s = "payload" -> 2
                [] s = "user_id" -> 3 [] s = "user" -> 4]
UpTo(s) == {x \in Stages : StageNo[x] <= StageNo[s]}
From(s) == {x \in Stages : StageNo[x] >= StageNo[s]}

Views == {"auth", "other", "user", "rates"}

NoVals ==
    [s \in Stages |->
        CASE s = "token" -> NoneToken [] s = "payload" -> NoPayload
          [] s = "user_id" -> NoUser [] s = "user" -> NoUser]

\* A request: META's auth header, the private slots the descriptors have
\* filled (cached, vals), and history counters of the work done for it.
NoRequest ==
    [active |-> FALSE, view |-> "other", META |-> NoneToken,
     cached |-> {}, vals |-> NoVals,
     decodes |-> 0, lookups |-> 0, reads |-> 0, userReads |-> 0,
     setStages |-> {}, firstSeen |-> {}, first |-> NoVals, changed |-> {},
     posted |-> FALSE]

NewRequest(view, header) ==
    [NoRequest EXCEPT !.active = TRUE, !.view = view, !.META = header]

\* What evaluating a stage gives: the request afterwards, the exception
\* raised ("none" when a value is returned), the value (for a factory), the
\* factories that ran, the stages whose read returned, the decode outcome.
Got(r, exc, val, ran, seen, dec) ==
    [r |-> r, exc |-> exc, val |-> val, ran |-> ran, seen |-> seen, dec |-> dec]

RECURSIVE descriptor_get(_, _, _, _)

\* _get_user_token_from_headers: the header, None when it is absent
get_user_token_from_headers(r) ==
    Got(r, "none", r.META, {}, {}, "none")

\* Exceptions of jwt.decode that _get_user_token_payload translates; any
\* other exception leaves the function as it is.
TranslateJwtError(exc) ==
    CASE exc = "ExpiredSignatureError" -> "AuthCredentialsExpired"
      [] exc \in {"DecodeError", "InvalidSignatureError", "InvalidAlgorithmError"}
            -> "AuthCredentialsInvalid"
      [] OTHER -> exc

\* A payload stage that gives an anonymous request an empty payload.
get_user_token_payload_anonymous(r, now, db) ==
    LET t == descriptor_get(r, "token", now, db)
        d == jwt_decode(t.r.vals["token"], now)
        r1 == [t.r EXCEPT !.decodes = @ + 1]
    IN  IF t.exc # "none" THEN t
        ELSE IF t.r.vals["token"] = NoneToken
        THEN Got(t.r, "none", NoPayload, t.ran, t.seen, "none")
        ELSE IF d.exc = "none"
        THEN Got(r1, "none", d.payload, t.ran, t.seen, "ok")
        ELSE Got(r1, TranslateJwtError(d.exc), NoPayload, t.ran, t.seen,
                 TranslateJwtError(d.exc))

\* _get_user_token_payload
get_user_token_payload(r, now, db) ==
    LET t == descriptor_get(r, "token", now, db)
        d == jwt_decode(t.r.vals["token"], now)
        r1 == [t.r EXCEPT !.decodes = @ + 1]
    IN  IF t.exc # "none" THEN t
        ELSE IF d.exc = "none"
        THEN Got(r1, "none", d.payload, t.ran, t.seen, "ok")
        ELSE Got(r1, TranslateJwtError(d.exc), NoPayload, t.ran, t.seen,
                 TranslateJwtError(d.exc))

\* _get_user_id
get_user_id(r, now, db) ==
    LET p == descriptor_get(r, "payload", now, db)
        s == p.r.vals["payload"].user_id
    IN  IF p.exc # "none" THEN p
        ELSE IF IsUuidStr(s)
        THEN Got(p.r, "none", transform_uuid(s), p.ran, p.seen, p.dec)
        ELSE Got(p.r, "InvalidParamValueError", NoUser, p.ran, p.seen, p.dec)

\* _get_user returning None for a missing user instead of raising.
get_user_no_raise(r, now, db) ==
    LET u == descriptor_get(r, "user_id", now, db)
        r1 == [u.r EXCEPT !.lookups = @ + 1]
        user_id == u.r.vals["user_id"]
    IN  IF u.exc # "none" THEN u
        ELSE Got(r1, "none", IF user_id \in DOMAIN db THEN user_id ELSE NoUser,
                 u.ran, u.seen, u.dec)

\* _get_user: one storage query by user_id; a missing user is an error
get_user(r, now, db) ==
    LET u == descriptor_get(r, "user_id", now, db)
        r1 == [u.r EXCEPT !.lookups = @ + 1]
        user_id == u.r.vals["user_id"]
    IN  IF u.exc # "none" THEN u
        ELSE IF user_id \in DOMAIN db
        THEN Got(r1, "none", user_id, u.ran, u.seen, u.dec)
        ELSE Got(r1, "AuthCredentialsInvalid", NoUser, u.ran, u.seen, u.dec)

\* The factory AppAuthMiddleware binds to each stage
factory(r, s, now, db) ==
    CASE s = "token" -> get_user_token_from_headers(r)
      [] s = "payload" -> get_user_token_payload(r, now, db)
      [] s = "user_id" -> get_user_id(r, now, db)
      [] s = "user" -> get_user(r, now, db)

\* A descriptor that keeps the value on itself: the descriptor is one
\* object per request class, so a value resolved for one request is handed
\* to the next that asks.
descriptor_get_shared(r, s, now, db) ==
    IF s \in r.cached
    THEN Got(r, "none", r.vals[s], {}, {s}, "none")
    ELSE IF s \in peer.cached
    THEN Got([r EXCEPT !.cached = @ \cup {s}, !.vals[s] = peer.vals[s]],
             "none", peer.vals[s], {}, {s}, "none")
    ELSE LET f == factory(r, s, now, db)
         IN  IF f.exc = "none"
             THEN Got([f.r EXCEPT !.cached = @ \cup {s}, !.vals[s] = f.val],
                      "none", f.val, f.ran \cup {s}, f.seen \cup {s}, f.dec)
             ELSE Got(f.r, f.exc, f.val, f.ran \cup {s}, f.seen, f.dec)

\* _LazyHttpRequestDescriptor.__get__: the private slot if it is there,
\* else the factory's value, stored only when the factory returns.
descriptor_get(r, s, now, db) ==
    IF s \in r.cached
    THEN Got(r, "none", r.vals[s], {}, {s}, "none")
    ELSE LET f == factory(r, s, now, db)
         IN  IF f.exc = "none"
             THEN Got([f.r EXCEPT !.cached = @ \cup {s}, !.vals[s] = f.val],
                      "none", f.val, f.ran \cup {s}, f.seen \cup {s}, f.dec)
             ELSE Got(f.r, f.exc, f.val, f.ran \cup {s}, f.seen, f.dec)

\* _LazyHttpRequestDescriptor.__set__
descriptor_set(r, s, value) ==
    [r EXCEPT !.cached = @ \cup {s}, !.vals[s] = value,
              !.setStages = @ \cup {s}]

\* History kept with a read: the first value each stage returned, and the
\* stages that have since returned another one.
Observe(r0, g) ==
    [g.r EXCEPT
        !.firstSeen = @ \cup g.seen,
        !.first = [s \in Stages |->
                     IF s \in g.seen \ r0.firstSeen THEN g.r.vals[s] ELSE r0.first[s]],
        !.changed = @ \cup {s \in g.seen \cap r0.firstSeen : g.r.vals[s] # r0.first[s]}]

\* A middleware that resolves the payload before the view runs.
eager_middleware_call(r, att, now, db) ==
    [r |-> descriptor_get(r, "payload", now, db).r, attached |-> att \cup Stages]

\* AppAuthMiddleware.__call__ up to get_response: attach the descriptors
\* the request class lacks; the request itself is not touched.
AppAuthMiddleware_call(r, att, now, db) ==
    [r |-> r, attached |-> att \cup (Stages \ att)]

---------------------------------------------------------------------------
(* AuthRegisterView (api/views.py) *)

\* ResponseEncodableMixin.response_encode: the columns of the object
full_encode(user_id, row) ==
    [user_id |-> user_id, user_type |-> row.user_type, email |-> row.email,
     password_hash |-> row.password_hash,
     is_email_confirmed |-> row.is_email_confirmed,
     is_confirmed |-> row.is_confirmed, is_blocked |-> row.is_blocked]

\* An encoding that leaves the hash among the columns.
response_encode_keep_hash(user_id, row) == full_encode(user_id, row)

\* AbstractUser.response_encode: the columns without password_hash
response_encode(user_id, row) ==
    LET encoded_object == full_encode(user_id, row)
    IN  [k \in DOMAIN encoded_object \ {"password_hash"} |-> encoded_object[k]]

\* No response has been built by the view.
NoResponse ==
    [status |-> 0, body |-> << >>, cookies |-> << >>]

ViewResult(exc, r, db_users, db_tokens, class, touched, engines, auth, response) ==
    [exc |-> exc, r |-> r, users |-> db_users, refreshTokens |-> db_tokens,
     class |-> class, session_touched |-> touched, engines |-> engines,
     auth |-> auth, response |-> response]

\* AuthRegisterView.post: select the engine, build it on the request's
\* storage session (request.lamb_db_session, a Session), authenticate, seed app_user_token and app_user, answer
\* with the access token and the user in the body and the refresh token in
\* a cookie.
AuthRegisterView_post(r, parsed_body, db_users, db_tokens, now, conf) ==
    LET sel == get_auth_engine(parsed_body)
        auth == authenticate(parsed_body.credentials, db_users, db_tokens, now, conf)
        r1 == descriptor_set(r, "token", auth.access)
        r2 == descriptor_set(r1, "user", auth.user)
        cons == IF sel.exc = "none"
                THEN AbstractAuthEngine_init(sel.class, LiveSession)
                ELSE [exc |-> sel.exc, engine |-> NoEngine]
    IN  IF sel.exc # "none"
        THEN ViewResult(sel.exc, r, db_users, db_tokens, "none", FALSE, 0,
                        AuthFailure("none", "", db_users, db_tokens), NoResponse)
        ELSE IF cons.exc # "none"
        THEN ViewResult(cons.exc, r, db_users, db_tokens, sel.class, TRUE, 0,
                        AuthFailure("none", "", db_users, db_tokens), NoResponse)
        ELSE IF auth.exc # "none"
        THEN ViewResult(auth.exc, r, auth.users, auth.refreshTokens, sel.class,
                        TRUE, 1, auth, NoResponse)
        ELSE ViewResult("none", r2, auth.users, auth.refreshTokens, sel.class,
                        TRUE, 1, auth,
                        [status |-> 200,
                         body |-> [access_token |-> auth.access,
                                   user |-> response_encode(auth.user,
                                                            auth.users[auth.user])],
                         cookies |-> [refresh_token |->
                            [value |-> auth.refresh,
                             flags |-> {"httponly", "secure", "samesite=strict"}]]])

---------------------------------------------------------------------------
(* Roles and permission predicates (api/models.py) *)

\* The role classes that define permission predicates.
RoleVariants == {"SUPER_ADMIN", "OPERATOR"}

Predicates == {"can_create_user", "can_read_user", "can_edit_user"}

\* A loaded user object: the row it maps (user_id), which Python object it
\* is (the same row loaded in two sessions gives two objects), its role
\* and its two account flags.
UserObjects ==
    [user_id : {1, 2}, obj : {1, 2}, user_type : UserType,
     is_confirmed : BOOLEAN, is_blocked : BOOLEAN]

\* user == self: the model classes define no __eq__, so this is identity.
SameObject(a, b) == a.user_id = b.user_id /\ a.obj = b.obj

\* A confirmation guard that lets every actor through.
check_account_confirmed_skipped(user) == "none"

\* check_account_confirmed: the exception it raises, "none" when it returns
check_account_confirmed(user) ==
    IF ~user.is_confirmed THEN "UserIsNotConfirmedError" ELSE "none"

run_checker(checker, user) ==
    CASE checker = "check_account_confirmed" -> check_account_confirmed(user)

\* user_check(checkers)(func): every checker runs on args[0]; func is
\* called only when all of them returned.  value is what func returns.
user_check(checkers, user, value) ==
    LET raised == {run_checker(c, user) : c \in checkers} \ {"none"}
    IN  IF raised # {}
        THEN [exc |-> CHOOSE e \in raised : TRUE, result |-> FALSE, body_ran |-> FALSE]
        ELSE [exc |-> "none", result |-> value, body_ran |-> TRUE]

\* A SuperAdmin that may create users of every type.
SuperAdmin_can_create_user_any(self, user_type) ==
    user_check({"check_account_confirmed"}, self, TRUE)

SuperAdmin_can_create_user(self, user_type) ==
    user_check({"check_account_confirmed"}, self, user_type # "SUPER_ADMIN")

SuperAdmin_can_read_user(self, user) ==
    user_check({"check_account_confirmed"}, self, TRUE)

SuperAdmin_can_edit_user(self, user) ==
    user_check({"check_account_confirmed"}, self, TRUE)

Operator_can_create_user(self, user_type) ==
    user_check({"check_account_confirmed"}, self, FALSE)

\* An Operator that may read every user.
Operator_can_read_user_any(self, user) ==
    user_check({"check_account_confirmed"}, self, TRUE)

Operator_can_read_user(self, user) ==
    user_check({"check_account_confirmed"}, self, SameObject(user, self))

Operator_can_edit_user(self, user) ==
    user_check({"check_account_confirmed"}, self, SameObject(user, self))

\* The method the actor's class binds to the name.
can_create_user(self, user_type) ==
    IF self.user_type = "SUPER_ADMIN" THEN SuperAdmin_can_create_user(self, user_type)
    ELSE Operator_can_create_user(self, user_type)

can_read_user(self, user) ==
    IF self.user_type = "SUPER_ADMIN" THEN SuperAdmin_can_read_user(self, user)
    ELSE Operator_can_read_user(self, user)

can_edit_user(self, user) ==
    IF self.user_type = "SUPER_ADMIN" THEN SuperAdmin_can_edit_user(self, user)
    ELSE Operator_can_edit_user(self, user)

NoObject ==
    [user_id |-> NoUser, obj |-> 1, user_type |-> "USER",
     is_confirmed |-> FALSE, is_blocked |-> FALSE]

\* A predicate call: the actor, the predicate, its argument (a role tag or
\* a user object), and the outcome.
NoPerm ==
    [pred |-> "none", actor |-> NoObject, user_type |-> "USER", target |-> NoObject,
     exc |-> "none", result |-> FALSE, body_ran |-> FALSE]

---------------------------------------------------------------------------
(* UserView and StoreExchangeRatesView (api/views.py, api/utils.py) and   *)
(* the exchange-rate task (api/tasks.py)                                   *)

\* The path argument user_id of users/<user_id>: "me", the string of a
\* uuid, or a word that is no uuid.
Me == <<"me">>
Identifiers == {Me, <<"nobody">>} \cup {str(u) : u \in {1, 2}}

\* The object a row is in the request's session (one object per row: the
\* session's identity map), of the class its user_type selects.
UserObject(db, u) ==
    [user_id |-> u, obj |-> 1, user_type |-> db[u].user_type,
     is_confirmed |-> db[u].is_confirmed, is_blocked |-> db[u].is_blocked]

\* What a view call gives: the exception it raises ("none" when it
\* returns), the request afterwards, the user it returns, the steps it
\* took in order, the queue afterwards and the response status.
ViewOut(exc, r, user, order, queue, status) ==
    [exc |-> exc, r |-> r, user |-> user, order |-> order, tasks |-> queue,
     status |-> status]

\* return request.app_user
return_app_user(a) ==
    ViewOut(a.exc, a.r, IF a.exc = "none" THEN a.val ELSE NoUser, <<"resolve">>, <<>>, 0)

\* get_user_by_identifier: request.app_user for "me", else one storage
\* query by the id; a missing row is NotExistError.
get_user_by_identifier(r, user_id, now, db) ==
    IF user_id = Me
    THEN return_app_user(descriptor_get(r, "user", now, db))
    ELSE IF ~IsUuidStr(user_id)
    THEN ViewOut("InvalidParamValueError", r, NoUser, <<>>, <<>>, 0)
    ELSE IF transform_uuid(user_id) \in DOMAIN db
    THEN ViewOut("none", r, transform_uuid(user_id), <<"lookup">>, <<>>, 0)
    ELSE ViewOut("NotExistError", r, NoUser, <<"lookup">>, <<>>, 0)

\* UserView.get from the value p of can_read_user(user) on: AuthForbidden
\* unless it is true, else the user t found.
UserView_get_return(t, a, p) ==
    IF p.exc # "none"
    THEN ViewOut(p.exc, a.r, NoUser, t.order \o <<"resolve", "permission">>, <<>>, 0)
    ELSE IF ~p.result
    THEN ViewOut("AuthForbidden", a.r, NoUser, t.order \o <<"resolve", "permission">>,
                 <<>>, 0)
    ELSE ViewOut("none", a.r, t.user, t.order \o <<"resolve", "permission">>, <<>>, 200)

\* UserView.get from the value a of request.app_user on.  AbstractUser
\* defines no can_read_user: for an actor of the base class the attribute
\* lookup raises AttributeError.
UserView_get_can_read_user(t, a, db) ==
    IF a.exc # "none"
    THEN ViewOut(a.exc, a.r, NoUser, t.order \o <<"resolve">>, <<>>, 0)
    ELSE IF db[a.val].user_type \notin RoleVariants
    THEN ViewOut("AttributeError", a.r, NoUser, t.order \o <<"resolve">>, <<>>, 0)
    ELSE UserView_get_return(t, a, can_read_user(UserObject(db, a.val),
                                                   UserObject(db, t.user)))

\* UserView.get from the result t of get_user_by_identifier on
UserView_get_app_user(t, now, db) ==
    IF t.exc # "none"
    THEN t
    ELSE UserView_get_can_read_user(t, descriptor_get(t.r, "user", now, db), db)

\* UserView.get: the target, then request.app_user, then its
\* can_read_user(target).
UserView_get(r, user_id, now, db) ==
    UserView_get_app_user(get_user_by_identifier(r, user_id, now, db), now, db)

\* isinstance(user, (SuperAdmin, Operator)): the class a row loads as is
\* the one mapped to its user_type, the base class for USER.
isinstance_SuperAdmin_or_Operator(row) == row.user_type \in RoleVariants

\* store_exchanges_rates_task.apply_async((request.app_user_id,)) and the
\* response, from the value i of request.app_user_id on
StoreExchangeRatesView_post_apply_async(i, queue) ==
    IF i.exc # "none"
    THEN ViewOut(i.exc, i.r, NoUser, <<"resolve">>, queue, 0)
    ELSE ViewOut("none", i.r, NoUser, <<"resolve", "enqueue">>,
                 Append(queue, <<i.val>>), 201)

\* StoreExchangeRatesView.post from the value a of request.app_user on
StoreExchangeRatesView_post_isinstance(a, now, db, queue) ==
    IF a.exc # "none"
    THEN ViewOut(a.exc, a.r, NoUser, <<"resolve">>, queue, 0)
    ELSE IF ~isinstance_SuperAdmin_or_Operator(db[a.val])
    THEN ViewOut("AuthForbidden", a.r, NoUser, <<"resolve">>, queue, 0)
    ELSE StoreExchangeRatesView_post_apply_async(
             descriptor_get(a.r, "user_id", now, db), queue)

\* StoreExchangeRatesView.post: request.app_user must be a SuperAdmin or an
\* Operator; the task is enqueued with (request.app_user_id,).
StoreExchangeRatesView_post(r, now, db, queue) ==
    StoreExchangeRatesView_post_isinstance(descriptor_get(r, "user", now, db),
                                           now, db, queue)

\* Status codes the exchange-rate API answers with.
StatusCodes == {200, 500}

\* store_exchanges_rates_task: fetch the rates, store one record for the
\* actor.  actor_id references the user row: the commit fails when the row
\* is gone.
store_exchanges_rates_task(actor_id, status_code, db_users, records) ==
    IF status_code # 200
    THEN [exc |-> "ServerError", rateRecords |-> records]
    ELSE IF actor_id \notin DOMAIN db_users
    THEN [exc |-> "IntegrityError", rateRecords |-> records]
    ELSE [exc |-> "none",
          rateRecords |-> Append(records, [actor_id |-> actor_id, rate |-> "USD"])]

---------------------------------------------------------------------------
(* History of the last step *)

\* A view call: the view, its path argument, the user returned, the
\* steps taken, the response status and the tasks it enqueued.
NoView ==
    [name |-> "none", user_id |-> NoStr, user |-> NoUser, order |-> <<>>,
     status |-> 0, enqueued |-> <<>>]

\* check_password was not called.
NoCheck == [exc |-> "none", result |-> FALSE]

NoAuth ==
    [called |-> FALSE, known |-> FALSE, verifies |-> FALSE, matched |-> NoUser,
     check |-> NoCheck,
     exc |-> "none", msg |-> "", access |-> NoneToken, refresh |-> NoneToken,
     user |-> NoUser, nrec |-> 0]

\* A capability call on an engine: what it was called on and with, whether
\* an engine object came to exist, whether the capability's body was
\* entered, its outcome, and whether the storage is as it was.
NoCall ==
    [cap |-> "none", via |-> "none", db_session |-> "None", constructed |-> FALSE,
     body_ran |-> FALSE, exc |-> "none", result |-> FALSE, email |-> NoEmail,
     unchanged |-> TRUE]

Op(kind) ==
    [kind |-> kind, stage |-> "none", exc |-> "none", ran |-> {}, dec |-> "none",
     token |-> NoneToken, engine |-> "none", class |-> "none",
     session_touched |-> FALSE, engines |-> 0, auth |-> NoAuth,
     response |-> NoResponse, call |-> NoCall, perm |-> NoPerm, view |-> NoView]

\* What the caller of authenticate() can observe, with the facts of the
\* storage before the call that the call was made on.
AuthRecord(credentials, db_users, out) ==
    LET hits == {u \in DOMAIN db_users :
                    db_users[u].email = [i \in DOMAIN credentials.email |->
                                           LowerChar(credentials.email[i])]}
        u == IF hits = {} THEN NoUser ELSE CHOOSE x \in hits : TRUE
    IN  [called |-> TRUE,
         known |-> hits # {},
         verifies |-> /\ hits # {}
                      /\ db_users[u].password_hash # NoHash
                      /\ db_users[u].password_hash.raw = credentials.password,
         matched |-> u,
         check |-> IF hits = {} THEN NoCheck
                   ELSE LET chk == check_password(db_users[u], credentials.password)
                        IN  [exc |-> chk.exc, result |-> chk.result],
         exc |-> out.exc, msg |-> out.msg, access |-> out.access,
         refresh |-> out.refresh, user |-> out.user,
         nrec |-> Cardinality({t \in out.refreshTokens :
                                 t.value = out.refresh /\ t.user_id = u})]

---------------------------------------------------------------------------
(* The state machine *)

DefaultSettings ==
    [access_token_timeout |-> AccessTokenTimeoutDefault,
     refresh_token_timeout |-> RefreshTokenTimeoutDefault]

\* Clock advances the model takes: two seconds, and one second less than
\* each timeout;
TickSteps == {2} \cup {m * SecondsPerMinute - 1 : m \in TimeoutChoices}

\* or, in one step, to just after the default access timeout.
LongSteps == {AccessTokenTimeoutDefault * SecondsPerMinute + 1}

\* What the auth header of a request may hold: nothing, a token issued
\* earlier, or (for requests other than a login) a foreign value.
LoginHeaders == {NoneToken} \cup {i.token : i \in issued}
HeaderValues == LoginHeaders \cup ForeignTokens

Init ==
    /\ users = InitUsers
    /\ refreshTokens = {}
    /\ settings = DefaultSettings
    /\ clock = 0
    /\ events = 0
    /\ issued = {}
    /\ attached = {}
    /\ request = NoRequest
    /\ peer = NoRequest
    /\ tasks = <<>>
    /\ rateRecords = <<>>
    /\ lastOp = Op("init")

\* A request arrives and passes AppAuthMiddleware.
StartRequest(view, header) ==
    /\ ~request.active
    /\ LET m == AppAuthMiddleware_call(NewRequest(view, header), attached, clock, users)
       IN  /\ request' = m.r
           /\ attached' = m.attached
    /\ lastOp' = [Op("start") EXCEPT !.token = header]
    /\ UNCHANGED <<peer, tasks, rateRecords, users, refreshTokens, settings, clock, events, issued>>

\* A call site reads request.app_user_token / _payload / app_user_id / app_user
\* (a view other than the login view, or code that runs after the login
\* view has seeded the request; before that, and after a failed login, only
\* the logging filter reads).
ReadStage(s) ==
    /\ request.active
    /\ request.view = "other" \/ request.setStages # {}
    /\ request.reads < MaxReads
    /\ LET g == descriptor_get(request, s, clock, users)
       IN  /\ request' = [Observe(request, g) EXCEPT
                             !.reads = @ + 1,
                             !.userReads = IF s = "user" THEN @ + 1 ELSE @]
           /\ lastOp' = [Op("read") EXCEPT !.stage = s, !.exc = g.exc,
                            !.ran = g.ran, !.dec = g.dec,
                            !.token = g.r.vals["token"]]
    /\ UNCHANGED <<peer, tasks, rateRecords, users, refreshTokens, settings, clock, events, issued, attached>>

\* AppContextFilter.filter: a log record is emitted while the request is
\* current; app_user_id is read and any exception is swallowed.
LogRecord ==
    /\ request.active
    /\ request.reads < MaxReads
    /\ LET g == descriptor_get(request, "user_id", clock, users)
       IN  /\ request' = [Observe(request, g) EXCEPT !.reads = @ + 1]
           /\ lastOp' = [Op("log") EXCEPT !.stage = "user_id", !.exc = g.exc,
                            !.ran = g.ran, !.dec = g.dec,
                            !.token = g.r.vals["token"]]
    /\ UNCHANGED <<peer, tasks, rateRecords, users, refreshTokens, settings, clock, events, issued, attached>>

\* POST auth/auth handled by AuthRegisterView.post
AuthPost(engine, credentials) ==
    /\ request.active
    /\ request.view = "auth"
    /\ ~request.posted
    /\ events < MaxEvents
    /\ LET body == [engine |-> engine, credentials |-> credentials]
           out == AuthRegisterView_post(request, body, users, refreshTokens,
                                        clock, settings)
       IN  /\ request' = [out.r EXCEPT !.posted = TRUE]
           /\ users' = out.users
           /\ refreshTokens' = out.refreshTokens
           /\ events' = events + 1
           /\ issued' = IF out.exc = "none"
                        THEN issued \cup
                             {[token |-> out.auth.access, iat |-> clock,
                               minutes |-> settings.access_token_timeout],
                              [token |-> out.auth.refresh, iat |-> clock,
                               minutes |-> settings.refresh_token_timeout]}
                        ELSE issued
           /\ lastOp' = [Op("post") EXCEPT
                            !.exc = out.exc, !.class = out.class,
                            !.engine = IF engine \in EmailSpellings THEN "email"
                                       ELSE "unknown",
                            !.session_touched = out.session_touched,
                            !.engines = out.engines,
                            !.auth = IF out.engines = 0 THEN NoAuth
                                     ELSE AuthRecord(credentials, users, out.auth),
                            !.response = out.response]
    /\ UNCHANGED <<peer, tasks, rateRecords, settings, clock, attached>>

\* The response is returned; the request object is dropped.
EndRequest ==
    /\ request.active
    /\ request' = NoRequest
    /\ lastOp' = Op("end")
    /\ UNCHANGED <<peer, tasks, rateRecords, users, refreshTokens, settings, clock, events, issued, attached>>

\* Between requests the environment moves: time passes,
Tick(d) ==
    /\ ~request.active
    /\ events < MaxEvents
    /\ clock' = clock + d
    /\ events' = events + 1
    /\ lastOp' = Op("tick")
    /\ UNCHANGED <<peer, tasks, rateRecords, users, refreshTokens, settings, issued, attached, request>>

\* a user row is deleted, its refresh tokens and exchange-rate records
\* with it (ondelete CASCADE),
DeleteUser(u) ==
    /\ ~request.active
    /\ events < MaxEvents
    /\ u \in DOMAIN users
    /\ users' = [x \in DOMAIN users \ {u} |-> users[x]]
    /\ refreshTokens' = {t \in refreshTokens : t.user_id # u}
    /\ rateRecords' = SelectSeq(rateRecords, LAMBDA rec : rec.actor_id # u)
    /\ events' = events + 1
    /\ lastOp' = Op("delete")
    /\ UNCHANGED <<peer, tasks, settings, clock, issued, attached, request>>

\* or a token timeout is changed in the settings storage.
ChangeSettings(name, minutes) ==
    /\ ~request.active
    /\ events < MaxEvents
    /\ settings[name] # minutes
    /\ settings' = [settings EXCEPT ![name] = minutes]
    /\ events' = events + 1
    /\ lastOp' = Op("settings")
    /\ UNCHANGED <<peer, tasks, rateRecords, users, refreshTokens, clock, issued, attached, request>>

\* The view has answered: the request as the view left it, the queue, and
\* the history of the call.
ViewReturns(kind, name, user_id, out) ==
    /\ request' = [out.r EXCEPT !.posted = TRUE]
    /\ tasks' = out.tasks
    /\ lastOp' = [Op(kind) EXCEPT
                     !.exc = out.exc,
                     !.view = [name |-> name, user_id |-> user_id,
                               user |-> out.user, order |-> out.order,
                               status |-> out.status,
                               enqueued |-> SubSeq(out.tasks, Len(tasks) + 1,
                                                   Len(out.tasks))]]

\* GET users/<user_id> handled by UserView.get
UserGet(user_id) ==
    /\ request.active
    /\ request.view = "user"
    /\ ~request.posted
    /\ ViewReturns("get", "UserView", user_id,
                   [UserView_get(request, user_id, clock, users) EXCEPT !.tasks = tasks])
    /\ UNCHANGED <<peer, rateRecords, users, refreshTokens, settings, clock,
                   events, issued, attached>>

\* POST services/store-rates handled by StoreExchangeRatesView.post
RatesPost ==
    /\ request.active
    /\ request.view = "rates"
    /\ ~request.posted
    /\ events < MaxEvents
    /\ ViewReturns("rates", "StoreExchangeRatesView", NoStr,
                   StoreExchangeRatesView_post(request, clock, users, tasks))
    /\ events' = events + 1
    /\ UNCHANGED <<peer, rateRecords, users, refreshTokens, settings, clock,
                   issued, attached>>

\* A celery worker takes the oldest task of the queue and runs it.
RunTask(status_code) ==
    /\ tasks # <<>>
    /\ LET out == store_exchanges_rates_task(Head(tasks)[1], status_code, users,
                                             rateRecords)
       IN  /\ rateRecords' = out.rateRecords
           /\ lastOp' = [Op("task") EXCEPT !.exc = out.exc]
    /\ tasks' = Tail(tasks)
    /\ UNCHANGED <<peer, users, refreshTokens, settings, clock, events, issued,
                   attached, request>>

\* The actors, and the user objects a predicate can be asked about: the
\* actor itself, or another object of any role (the same row loaded twice
\* or another row; no predicate reads the flags of its argument, they are
\* those of an ordinary account).
Actors == {a \in UserObjects : a.user_type \in RoleVariants}
Targets(actor) ==
    {actor} \cup {t \in UserObjects : /\ ~SameObject(t, actor)
                                      /\ t.is_confirmed /\ ~t.is_blocked}

\* actor.can_create_user(user_type)
CallCanCreate(actor, user_type) ==
    /\ ~request.active
    /\ LET out == can_create_user(actor, user_type)
       IN  lastOp' = [Op("perm") EXCEPT
               !.perm = [NoPerm EXCEPT
                   !.pred = "can_create_user", !.actor = actor,
                   !.user_type = user_type, !.exc = out.exc,
                   !.result = out.result, !.body_ran = out.body_ran]]
    /\ UNCHANGED <<peer, tasks, rateRecords, users, refreshTokens, settings, clock, events, issued,
                   attached, request>>

\* actor.can_read_user(target), actor.can_edit_user(target)
CallOnUser(pred, actor, target) ==
    /\ ~request.active
    /\ pred \in {"can_read_user", "can_edit_user"}
    /\ LET out == IF pred = "can_read_user" THEN can_read_user(actor, target)
                  ELSE can_edit_user(actor, target)
       IN  lastOp' = [Op("perm") EXCEPT
               !.perm = [NoPerm EXCEPT
                   !.pred = pred, !.actor = actor, !.target = target,
                   !.exc = out.exc, !.result = out.result,
                   !.body_ran = out.body_ran]]
    /\ UNCHANGED <<peer, tasks, rateRecords, users, refreshTokens, settings, clock, events, issued,
                   attached, request>>

\* The worker turns to the other request in flight (another thread, or
\* the same thread between two requests): the request it was serving waits.
Switch ==
    /\ request.active \/ peer.active
    /\ request' = peer
    /\ peer' = request
    /\ lastOp' = Op("switch")
    /\ UNCHANGED <<tasks, rateRecords, users, refreshTokens, settings, clock, events, issued, attached>>

\* A user object that was never given an email.
DetachedUser == [email |-> NoEmail, password_hash |-> NoHash]
BoundedArgs == {users[u] : u \in DOMAIN users} \cup {DetachedUser}

\* A caller builds an EmailAuthEngine on db_session and calls authenticate.
EngineAuthenticate(db_session, credentials) ==
    /\ ~request.active
    /\ events < MaxEvents
    /\ LET cons == AbstractAuthEngine_init("EmailAuthEngine", db_session)
           out == EmailAuthEngine_call("authenticate", credentials, DetachedUser,
                                       users, refreshTokens, clock, settings)
           ok == cons.exc = "none"
       IN  /\ users' = IF ok THEN out.users ELSE users
           /\ refreshTokens' = IF ok THEN out.refreshTokens ELSE refreshTokens
           /\ issued' = IF ok /\ out.exc = "none"
                        THEN issued \cup
                             {[token |-> out.auth.access, iat |-> clock,
                               minutes |-> settings.access_token_timeout],
                              [token |-> out.auth.refresh, iat |-> clock,
                               minutes |-> settings.refresh_token_timeout]}
                        ELSE issued
           /\ lastOp' = [Op("engine") EXCEPT
                 !.auth = IF ok THEN AuthRecord(credentials, users, out.auth) ELSE NoAuth,
                 !.call = [NoCall EXCEPT
                     !.cap = "authenticate", !.via = "instance",
                     !.db_session = db_session, !.constructed = ok,
                     !.body_ran = ok,
                     !.exc = IF ok THEN out.exc ELSE cons.exc,
                     !.result = ok /\ out.result,
                     !.unchanged = ~ok \/ (out.users = users
                                           /\ out.refreshTokens = refreshTokens)]]
    /\ events' = events + 1
    /\ UNCHANGED <<peer, tasks, rateRecords, settings, clock, attached, request>>

\* A caller builds an EmailAuthEngine on db_session and calls another
\* capability.
EngineCall(db_session, cap, user) ==
    /\ ~request.active
    /\ cap \in Capabilities \ {"authenticate"}
    /\ cap # "bounded" => user = DetachedUser
    /\ LET cons == AbstractAuthEngine_init("EmailAuthEngine", db_session)
           out == EmailAuthEngine_call(cap, [email |-> NoEmail, password |-> "good"],
                                       user, users, refreshTokens, clock, settings)
           ok == cons.exc = "none"
       IN  /\ users' = IF ok THEN out.users ELSE users
           /\ refreshTokens' = IF ok THEN out.refreshTokens ELSE refreshTokens
           /\ lastOp' = [Op("engine") EXCEPT
                 !.call = [NoCall EXCEPT
                     !.cap = cap, !.via = "instance",
                     !.db_session = db_session, !.constructed = ok,
                     !.body_ran = ok,
                     !.exc = IF ok THEN out.exc ELSE cons.exc,
                     !.result = ok /\ out.result,
                     !.email = user.email,
                     !.unchanged = ~ok \/ (out.users = users
                                           /\ out.refreshTokens = refreshTokens)]]
    /\ UNCHANGED <<peer, tasks, rateRecords, settings, clock, events, issued, attached, request>>

\* bounded is a classmethod: a caller asks the class, no engine is built.
ClassBounded(user) ==
    /\ ~request.active
    /\ LET out == EmailAuthEngine_call("bounded", [email |-> NoEmail, password |-> "good"],
                                       user, users, refreshTokens, clock, settings)
       IN  lastOp' = [Op("engine") EXCEPT
                 !.call = [NoCall EXCEPT
                     !.cap = "bounded", !.via = "class", !.body_ran = TRUE,
                     !.exc = out.exc, !.result = out.result, !.email = user.email]]
    /\ UNCHANGED <<peer, tasks, rateRecords, users, refreshTokens, settings, clock, events, issued,
                   attached, request>>

Next ==
    \/ \E h \in LoginHeaders : StartRequest("auth", h)
    \/ \E h \in HeaderValues : StartRequest("other", h)
    \/ \E s \in Stages : ReadStage(s)
    \/ LogRecord
    \/ \E e \in EngineNames, c \in Credentials : AuthPost(e, c)
    \/ EndRequest
    \/ \E d \in LongSteps : Tick(d)
    \/ \E u \in UserIds : DeleteUser(u)

Spec == Init /\ [][Next]_vars

\* The token lifetime: logins and payload reads while time passes in the
\* steps of TickSteps and the timeouts are reconfigured.
NextExpiry ==
    \/ \E h \in LoginHeaders : StartRequest("auth", h)
    \/ \E h \in LoginHeaders : StartRequest("other", h)
    \/ ReadStage("payload")
    \/ \E c \in Credentials : AuthPost(EmailIdentity, c)
    \/ EndRequest
    \/ \E d \in TickSteps : Tick(d)
    \/ \E n \in DOMAIN DefaultSettings, m \in TimeoutChoices : ChangeSettings(n, m)

SpecExpiry == Init /\ [][NextExpiry]_vars

\* The engines on their own: construction on any object and every
\* capability, while time passes.
NextEngine ==
    \/ \E d \in DbSessions, c \in Credentials : EngineAuthenticate(d, c)
    \/ \E d \in DbSessions, cap \in Capabilities, u \in BoundedArgs : EngineCall(d, cap, u)
    \/ \E u \in BoundedArgs : ClassBounded(u)
    \/ \E d \in LongSteps : Tick(d)

\* Two requests in flight at once, their steps interleaved: logins of two
\* users, and requests that carry no token, a token issued by a login or a
\* token with a bad signature and read the token or the user.
TwoCredentials ==
    {[email |-> <<"a">>, password |-> "good"], [email |-> <<"b">>, password |-> "other"]}

NextTwo ==
    \/ StartRequest("auth", NoneToken)
    \/ \E h \in LoginHeaders \cup {BadSignatureToken} : StartRequest("other", h)
    \/ \E s \in {"token", "user"} : ReadStage(s)
    \/ \E c \in TwoCredentials : AuthPost(EmailIdentity, c)
    \/ EndRequest
    \/ Switch

SpecTwo == Init /\ [][NextTwo]_vars

SpecEngine == Init /\ [][NextEngine]_vars

\* The permission predicates on their own: every actor, every argument.
NextPerm ==
    \/ \E a \in Actors, t \in UserType : CallCanCreate(a, t)
    \/ \E p \in Predicates, a \in Actors : \E t \in Targets(a) : CallOnUser(p, a, t)

SpecPerm == Init /\ [][NextPerm]_vars

\* The views behind the identity: logins, GET users/<user_id> and POST
\* services/store-rates with any header, the worker, time and deletions,
\* over stored accounts of every role and flag.
AccountFlags ==
    {[is_email_confirmed |-> TRUE, is_confirmed |-> TRUE, is_blocked |-> FALSE],
     [is_email_confirmed |-> FALSE, is_confirmed |-> TRUE, is_blocked |-> TRUE],
     [is_email_confirmed |-> TRUE, is_confirmed |-> FALSE, is_blocked |-> FALSE],
     [is_email_confirmed |-> FALSE, is_confirmed |-> FALSE, is_blocked |-> TRUE]}

UserPopulations ==
    {[InitUsers EXCEPT
         ![1] = UserRow(<<"a">>, @.password_hash, t, f.is_email_confirmed,
                        f.is_confirmed, f.is_blocked),
         ![2] = [@ EXCEPT !.email = e]] :
     t \in UserType, f \in AccountFlags, e \in {<<"b">>, <<"B">>}}

ViewCredentials ==
    {[email |-> <<"a">>, password |-> "good"], [email |-> <<"A">>, password |-> "other"],
     [email |-> <<"b">>, password |-> "other"], [email |-> <<"B">>, password |-> "other"],
     [email |-> <<"e">>, password |-> "weak"]}

\* Headers of the requests to the two views: nothing, a token a login
\* issued, a JWT with a forged signature, a JWT with a not-before claim.
ViewHeaders == LoginHeaders \cup {BadSignatureToken, ImmatureToken}

InitViews ==
    /\ users \in UserPopulations
    /\ refreshTokens = {}
    /\ settings = DefaultSettings
    /\ clock = 0
    /\ events = 0
    /\ issued = {}
    /\ attached = {}
    /\ request = NoRequest
    /\ peer = NoRequest
    /\ tasks = <<>>
    /\ rateRecords = <<>>
    /\ lastOp = Op("init")

NextViews ==
    \/ StartRequest("auth", NoneToken)
    \/ \E h \in ViewHeaders : StartRequest("user", h)
    \/ \E h \in ViewHeaders : StartRequest("rates", h)
    \/ \E c \in ViewCredentials : AuthPost(EmailIdentity, c)
    \/ \E i \in Identifiers : UserGet(i)
    \/ RatesPost
    \/ \E c \in StatusCodes : RunTask(c)
    \/ EndRequest
    \/ \E d \in LongSteps : Tick(d)
    \/ DeleteUser(2)

SpecViews == InitViews /\ [][NextViews]_vars

---------------------------------------------------------------------------
(* Properties *)

Reads == {"read", "log"}
LoginDone == lastOp.kind = "post" /\ lastOp.auth.called

\* C1: a login with the email of a stored user and a password that verifies
\* returns a token pair whose user_id claims are the user's id, the user,
\* and exactly one RefreshToken row holds the returned refresh token for
\* that user.
C1_AuthenticateReturnsPair ==
    (LoginDone /\ lastOp.auth.known /\ lastOp.auth.verifies) =>
        /\ lastOp.auth.exc = "none"
        /\ lastOp.auth.user = lastOp.auth.matched
        /\ lastOp.auth.access.user_id = str(lastOp.auth.matched)
        /\ lastOp.auth.refresh.user_id = str(lastOp.auth.matched)
        /\ lastOp.auth.nrec = 1

\* C2: a login with an unknown email and a login with a known email whose
\* password does not verify (a user without password hash included) fail
\* alike: AuthCredentialsInvalid with the same message.
C2_SameFailure ==
    (LoginDone /\ ~(lastOp.auth.known /\ lastOp.auth.verifies)) =>
        /\ lastOp.auth.exc = "AuthCredentialsInvalid"
        /\ lastOp.auth.msg = InvalidCredentialsMessage

\* C3: a token issued at time T under timeout M (the access token under the
\* access timeout, the refresh token under the refresh timeout, as the
\* settings held them at T) decodes to its payload one second before T+M
\* and fails as AuthCredentialsExpired one second after T+M.
C3_TokenLifetime ==
    \A i \in issued :
        (lastOp.kind \in Reads /\ lastOp.dec # "none" /\ lastOp.token = i.token) =>
            /\ (clock = i.iat + i.minutes * SecondsPerMinute - 1) => lastOp.dec = "ok"
            /\ (clock = i.iat + i.minutes * SecondsPerMinute + 1)
                    => lastOp.dec = "AuthCredentialsExpired"

C3_Witness ==
    \E i \in issued :
        /\ lastOp.kind \in Reads /\ lastOp.token = i.token
        /\ clock = i.iat + i.minutes * SecondsPerMinute + 1
        /\ lastOp.dec = "AuthCredentialsExpired"

\* C4: whatever the raw token, verification returns the payload or fails
\* as credentials-expired or as credentials-invalid; nothing else escapes.
C4_ThreeOutcomes ==
    lastOp.dec \in {"none", "ok", "AuthCredentialsExpired", "AuthCredentialsInvalid"}

\* C5: within a request every read of a stage returns what the first
\* successful read of that stage returned, and three or more reads of
\* app_user take at most one storage lookup.
C5_RepeatedReads ==
    /\ request.changed = {}
    /\ request.userReads >= 3 => request.lookups <= 1

\* C6: within a request the token is decoded at most once and the user is
\* looked up at most once, whatever the token and the reads.
C6_FactoriesRunOnce ==
    /\ request.decodes <= 1
    /\ request.lookups <= 1

\* C7: once a stage has been set explicitly, a later read of that stage or
\* of a stage that depends on it runs no factory.
C7_SetShortCircuits ==
    (lastOp.kind \in Reads /\ \E s \in request.setStages : lastOp.stage \in From(s))
        => lastOp.ran = {}

\* C8: resolution is lazy: the middleware computes nothing and raises
\* nothing; reading app_user_token neither decodes nor raises, whatever the
\* token; a read of stage N runs only factories of stages 1..N, so a
\* credentials error comes only from a read of the payload, the user id or
\* the user.
C8_LazyResolution ==
    /\ lastOp.kind = "start" =>
          /\ request.cached = {} /\ request.decodes = 0 /\ request.lookups = 0
          /\ lastOp.exc = "none"
    /\ (lastOp.kind \in Reads /\ lastOp.stage = "token") =>
          /\ lastOp.exc = "none" /\ lastOp.dec = "none"
    /\ lastOp.kind \in Reads =>
          /\ lastOp.ran \subseteq UpTo(lastOp.stage)
          /\ lastOp.exc # "none" => lastOp.stage \in From("payload")
    /\ (lastOp.kind \in Reads /\ lastOp.dec # "none") =>
          lastOp.stage \in From("payload")

C8_Witness ==
    /\ lastOp.kind = "read" /\ lastOp.stage = "token"
    /\ request.META.form = "jwt" /\ request.META.sig /\ request.META.exp <= clock
    /\ request.cached = {"token"} /\ request.decodes = 0

\* C9: reading app_user with a token that verifies but whose user_id has
\* no stored user fails as AuthCredentialsInvalid; the user stage never
\* holds an empty user.
C9_MissingUserInvalid ==
    /\ (/\ lastOp.kind \in Reads /\ lastOp.stage = "user" /\ "user" \in lastOp.ran
        /\ "user_id" \in request.cached
        /\ request.vals["user_id"] \notin DOMAIN users)
          => lastOp.exc = "AuthCredentialsInvalid" /\ "user" \notin request.cached
    /\ "user" \in request.cached => request.vals["user"] # NoUser

C9_Witness ==
    /\ lastOp.kind = "read" /\ lastOp.stage = "user" /\ "user" \in lastOp.ran
    /\ lastOp.dec = "ok"
    /\ request.vals["user_id"] \notin DOMAIN users
    /\ lastOp.exc = "AuthCredentialsInvalid"

\* C10: a login naming an engine that is not registered fails with
\* InvalidParamValueError before the storage session is used and before an
\* engine is built; every spelling of "email" selects the email engine.
C10_EngineSelection ==
    lastOp.kind = "post" =>
        /\ lastOp.engine = "unknown" =>
              /\ lastOp.exc = "InvalidParamValueError"
              /\ ~lastOp.session_touched /\ lastOp.engines = 0
              /\ ~lastOp.auth.called
        /\ lastOp.engine = "email" =>
              /\ lastOp.class = "EmailAuthEngine"
              /\ lastOp.session_touched /\ lastOp.engines = 1

C10_Witness ==
    /\ lastOp.kind = "post" /\ lastOp.engine = "unknown"
    /\ lastOp.exc = "InvalidParamValueError"

EngineOp == lastOp.kind = "engine"
NoStorageHandle == lastOp.call.via = "class" \/ lastOp.call.db_session # LiveSession

\* C11 (as stated): building an engine on anything but a storage session
\* fails with ServerError and gives no engine, and no capability of an
\* engine ever runs without a storage handle.
C11_NoCapabilityWithoutSession ==
    EngineOp =>
        /\ (lastOp.call.via = "instance" /\ lastOp.call.db_session # LiveSession) =>
              lastOp.call.exc = "ServerError" /\ ~lastOp.call.constructed
        /\ NoStorageHandle => ~lastOp.call.body_ran

\* C11 (amended): building an engine on anything but a storage session
\* fails with ServerError and gives no engine, so no capability called on
\* an engine object runs without a storage handle; the only capability that
\* runs without one is bounded, asked of the class.
C11_ConstructionNeedsSession ==
    EngineOp =>
        /\ (lastOp.call.via = "instance" /\ lastOp.call.db_session # LiveSession) =>
              /\ lastOp.call.exc = "ServerError"
              /\ ~lastOp.call.constructed /\ ~lastOp.call.body_ran
              /\ lastOp.call.unchanged /\ ~lastOp.auth.called
        /\ lastOp.call.constructed => lastOp.call.db_session = LiveSession
        /\ (NoStorageHandle /\ lastOp.call.body_ran) =>
              lastOp.call.via = "class" /\ lastOp.call.cap = "bounded"

C11_Witness ==
    /\ EngineOp /\ lastOp.call.via = "instance" /\ lastOp.call.db_session = "None"
    /\ lastOp.call.cap = "authenticate" /\ lastOp.call.exc = "ServerError"

\* C12: on an email engine register_user fails as not-yet-realized,
\* resend_confirm, confirm, restore_request and restore_confirm fail as
\* not-allowed, none of them changes storage, and authenticate and bounded
\* never fail in either of these two ways.
C12_UnimplementedCapabilities ==
    (EngineOp /\ lastOp.call.body_ran) =>
        /\ lastOp.call.cap = "register_user" =>
              lastOp.call.exc = "NotRealizedMethodError" /\ lastOp.call.unchanged
        /\ lastOp.call.cap \in {"resend_confirm", "confirm", "restore_request",
                                "restore_confirm"} =>
              lastOp.call.exc = "NotAllowedMethodError" /\ lastOp.call.unchanged
        /\ lastOp.call.cap \in {"authenticate", "bounded"} =>
              lastOp.call.exc \notin {"NotRealizedMethodError", "NotAllowedMethodError"}

C12_Witness ==
    /\ EngineOp /\ lastOp.call.constructed /\ lastOp.call.cap = "confirm"
    /\ lastOp.call.exc = "NotAllowedMethodError"

PermOp == lastOp.kind = "perm"
PermBy(role) ==
    /\ PermOp
    /\ lastOp.perm.actor.user_type = role
    /\ lastOp.perm.actor.is_confirmed
OnUser == lastOp.perm.pred \in {"can_read_user", "can_edit_user"}

\* C13: a confirmed SuperAdmin may create every role but SUPER_ADMIN, and
\* may read and edit every user, other SuperAdmins and itself included.
C13_SuperAdminPermissions ==
    PermBy("SUPER_ADMIN") =>
        /\ lastOp.perm.exc = "none"
        /\ lastOp.perm.pred = "can_create_user" =>
              (lastOp.perm.result <=> lastOp.perm.user_type # "SUPER_ADMIN")
        /\ OnUser => lastOp.perm.result

C13_Witness ==
    /\ PermBy("SUPER_ADMIN") /\ lastOp.perm.pred = "can_create_user"
    /\ lastOp.perm.user_type = "SUPER_ADMIN" /\ ~lastOp.perm.result

\* C14: a confirmed Operator may create no user, and may read and edit a
\* user exactly when that user is the Operator itself.
C14_OperatorPermissions ==
    PermBy("OPERATOR") =>
        /\ lastOp.perm.exc = "none"
        /\ lastOp.perm.pred = "can_create_user" => ~lastOp.perm.result
        /\ (OnUser /\ lastOp.perm.target = lastOp.perm.actor) => lastOp.perm.result
        /\ (OnUser /\ lastOp.perm.target.user_id # lastOp.perm.actor.user_id)
              => ~lastOp.perm.result

C14_Witness ==
    /\ PermBy("OPERATOR") /\ lastOp.perm.pred = "can_read_user"
    /\ lastOp.perm.target.user_id # lastOp.perm.actor.user_id
    /\ ~lastOp.perm.result

\* C15: every predicate of SuperAdmin and Operator called by an actor that
\* is not confirmed raises UserIsNotConfirmedError, whatever the argument,
\* and the predicate body is not entered.
C15_UnconfirmedActorRaises ==
    (PermOp /\ ~lastOp.perm.actor.is_confirmed) =>
        /\ lastOp.perm.exc = "UserIsNotConfirmedError"
        /\ ~lastOp.perm.body_ran

C15_Witness ==
    /\ PermOp /\ ~lastOp.perm.actor.is_confirmed
    /\ lastOp.perm.actor.user_type = "SUPER_ADMIN"
    /\ lastOp.perm.pred = "can_edit_user"
    /\ lastOp.perm.exc = "UserIsNotConfirmedError"

\* C16: every predicate called by an actor that is blocked raises
\* UserIsBlockedError instead of returning a boolean.
C16_BlockedActorRaises ==
    (PermOp /\ lastOp.perm.actor.is_blocked) =>
        lastOp.perm.exc = "UserIsBlockedError"

\* C17: check_password always gives its boolean: with the right password
\* and a stored hash that is due for an upgrade, a failure of the rehash
\* (the validators rejecting the password included) is swallowed, so
\* check_password returns true and authenticate raises nothing.
C17_RehashNeverFailsCheck ==
    (lastOp.auth.called /\ lastOp.auth.known /\ lastOp.auth.verifies) =>
        /\ lastOp.auth.check.exc = "none"
        /\ lastOp.auth.check.result
        /\ lastOp.auth.exc # "InvalidParamValueError"

RecordsOf(db_tokens, u) == {t \in db_tokens : t.user_id = u}

\* C18: every authenticate call with correct credentials (the password
\* check has returned true) succeeds and adds one refresh record for the
\* user, whatever the time since the last call, and every record that was
\* stored before the call is still stored.
C18_EveryLoginAddsRecord ==
    [][(/\ lastOp'.auth.called /\ lastOp'.auth.known /\ lastOp'.auth.verifies
        /\ lastOp'.auth.check.exc = "none" /\ lastOp'.auth.check.result) =>
          /\ lastOp'.auth.exc = "none"
          /\ refreshTokens \subseteq refreshTokens'
          /\ Cardinality(RecordsOf(refreshTokens', lastOp'.auth.matched))
                = Cardinality(RecordsOf(refreshTokens, lastOp'.auth.matched)) + 1]_vars

PostOp == lastOp.kind = "post"

OwnIdentity(r) ==
    /\ ~r.active => r = NoRequest
    /\ "token" \in r.cached \ r.setStages => r.vals["token"] = r.META
    /\ "payload" \in r.cached =>
          /\ "token" \in r.cached
          /\ r.vals["payload"] = [user_id |-> r.vals["token"].user_id,
                                  exp |-> r.vals["token"].exp]
    /\ "user_id" \in r.cached =>
          /\ "payload" \in r.cached
          /\ str(r.vals["user_id"]) = r.vals["payload"].user_id
    /\ "user" \in r.cached \ r.setStages =>
          "user_id" \in r.cached /\ r.vals["user"] = r.vals["user_id"]
    /\ r.setStages # {} =>
          /\ r.posted /\ r.setStages = {"token", "user"}
          /\ r.vals["token"].user_id = str(r.vals["user"])
          /\ \E i \in issued : i.token = r.vals["token"]

\* C20: with two requests in flight and their steps interleaved in any
\* order, the identity each holds derives only from its own header or its
\* own explicit sets, though both use the descriptors of one request class.
C20_RequestIsolation ==
    /\ OwnIdentity(request)
    /\ OwnIdentity(peer)

C20_Witness ==
    /\ request.active /\ peer.active
    /\ "user_id" \in request.cached /\ "user_id" \in peer.cached
    /\ request.vals["user_id"] # peer.vals["user_id"]
    /\ attached = Stages

\* C21: a login that fails with invalid credentials (unknown email or wrong
\* password) leaves the users and the RefreshToken rows as they were; a
\* login changes a password hash only when the password is the stored one,
\* and adds a RefreshToken row only after check_password has returned True.
C21_FailedLoginLeavesStorage ==
    [][lastOp'.kind = "post" =>
          /\ (lastOp'.auth.called /\ lastOp'.auth.exc = "AuthCredentialsInvalid")
                => (users' = users /\ refreshTokens' = refreshTokens)
          /\ users' # users => (lastOp'.auth.called /\ lastOp'.auth.verifies)
          /\ refreshTokens' # refreshTokens =>
                /\ lastOp'.auth.called
                /\ lastOp'.auth.check.exc = "none" /\ lastOp'.auth.check.result
          /\ ~lastOp'.auth.called => (users' = users /\ refreshTokens' = refreshTokens)]_vars

\* A login with the email of a stored user and a wrong password has failed
\* while the storage holds rows of earlier logins.
C21_Witness ==
    /\ LoginDone /\ lastOp.auth.known /\ ~lastOp.auth.verifies
    /\ lastOp.auth.exc = "AuthCredentialsInvalid"
    /\ refreshTokens # {}

\* C22: whenever a request holds both app_user and app_user_id, the user
\* held is the one the id names, also after the login view has set
\* app_user_token and app_user.
C22_UserMatchesUserId ==
    ({"user", "user_id"} \subseteq request.cached) =>
        request.vals["user"] = request.vals["user_id"]

\* C23: a request whose header is a token a login issued, access or
\* refresh, resolves app_user_id to the user the login was for as long as
\* the token's own lifetime lasts and fails as expired from then on; the
\* two tokens of a pair name the same user.
C23_TokenKindsAlike ==
    /\ (LoginDone /\ lastOp.exc = "none") =>
          /\ lastOp.auth.access.user_id = lastOp.auth.refresh.user_id
          /\ lastOp.auth.access.user_id = str(lastOp.auth.user)
    /\ \A i \in issued :
          (/\ request.active /\ request.setStages = {} /\ request.META = i.token
           /\ lastOp.kind \in Reads /\ lastOp.stage \in {"user_id", "user"}
           /\ "user_id" \in lastOp.ran) =>
          IF clock < i.iat + i.minutes * SecondsPerMinute
          THEN /\ "user_id" \in request.cached
               /\ str(request.vals["user_id"]) = i.token.user_id
               /\ lastOp.stage = "user" =>
                     IF request.vals["user_id"] \in DOMAIN users
                     THEN lastOp.exc = "none"
                          /\ request.vals["user"] = request.vals["user_id"]
                     ELSE lastOp.exc = "AuthCredentialsInvalid"
          ELSE lastOp.exc = "AuthCredentialsExpired"

\* A refresh token in the header has resolved the user after the access
\* token of its pair expired.
C23_Witness ==
    \E i \in issued :
        /\ i.minutes = RefreshTokenTimeoutDefault
        /\ clock > i.iat + AccessTokenTimeoutDefault * SecondsPerMinute
        /\ request.active /\ request.META = i.token /\ request.setStages = {}
        /\ lastOp.kind = "read" /\ lastOp.stage = "user" /\ lastOp.exc = "none"
        /\ "payload" \in lastOp.ran
        /\ str(request.vals["user"]) = i.token.user_id

\* C24: on a request without the auth header, reading app_user_token
\* returns None, and reading app_user_token_payload, app_user_id or
\* app_user decodes the None token and raises AuthCredentialsInvalid;
\* none of the three ever holds a value.
C24_AnonymousRequest ==
    (request.active /\ request.META = NoneToken /\ request.setStages = {}) =>
    /\ request.cached \cap From("payload") = {}
    /\ lastOp.kind \in Reads =>
          /\ lastOp.stage = "token" =>
                /\ lastOp.exc = "none"
                /\ "token" \in request.cached /\ request.vals["token"] = NoneToken
          /\ lastOp.stage \in From("payload") =>
                /\ lastOp.exc = "AuthCredentialsInvalid"
                /\ lastOp.dec = "AuthCredentialsInvalid"
                /\ "payload" \in lastOp.ran

\* An anonymous request has read the token and then failed to read the user.
C24_Witness ==
    /\ request.active /\ request.META = NoneToken /\ request.setStages = {}
    /\ "token" \in request.cached
    /\ lastOp.kind = "read" /\ lastOp.stage = "user"
    /\ lastOp.exc = "AuthCredentialsInvalid"

\* Error kinds: a rejection with status 403, and the credentials errors.
ForbiddenErrors == {"AuthForbidden", "UserIsNotConfirmedError"}
CredentialsErrors == {"AuthCredentialsInvalid", "AuthCredentialsExpired"}

GetOp == lastOp.kind = "get"
ActorResolved == "user" \in request.cached
ActorRow == users[request.vals["user"]]
TargetNamed ==
    lastOp.view.user_id # Me /\ IsUuidStr(lastOp.view.user_id)

\* C25: UserView.get returns the target only for a resolved, confirmed
\* actor whose can_read_user(target) is true; a target named by id is
\* looked up before the actor is resolved or asked, so an id without a row
\* is NotExistError whoever calls, and an id with a row fails, for a caller
\* who may not read it or has no valid credentials, as forbidden or as a
\* credentials error.
C25_UserViewGet ==
    GetOp =>
    /\ lastOp.exc = "none" =>
          /\ ActorResolved
          /\ ActorRow.user_type \in RoleVariants /\ ActorRow.is_confirmed
          /\ can_read_user(UserObject(users, request.vals["user"]),
                           UserObject(users, lastOp.view.user)).result
          /\ lastOp.view.user_id = Me => lastOp.view.user = request.vals["user"]
          /\ lastOp.view.user_id # Me => str(lastOp.view.user) = lastOp.view.user_id
    /\ TargetNamed =>
          /\ lastOp.view.order \in {<<"lookup">>, <<"lookup", "resolve">>,
                                    <<"lookup", "resolve", "permission">>}
          /\ transform_uuid(lastOp.view.user_id) \notin DOMAIN users =>
                lastOp.exc = "NotExistError" /\ ~ActorResolved
          /\ (transform_uuid(lastOp.view.user_id) \in DOMAIN users /\ lastOp.exc # "none") =>
                lastOp.exc \in ForbiddenErrors \cup CredentialsErrors

LoginOf(u) ==
    /\ LoginDone /\ lastOp.auth.exc = "none" /\ lastOp.auth.user = u
    /\ lastOp.auth.access # NoneToken /\ lastOp.auth.refresh # NoneToken
    /\ lastOp.auth.nrec = 1

\* C26: a login succeeds, with a token pair and a RefreshToken row,
\* exactly when the lowercased email is that of a stored user and the
\* password is the stored one, whatever the user's is_confirmed,
\* is_email_confirmed and is_blocked; a user stored under an email with an
\* upper-case letter is never matched.
C26_AuthenticateExactlyWhen ==
    LoginDone =>
    /\ (lastOp.auth.known /\ lastOp.auth.verifies) <=> lastOp.auth.exc = "none"
    /\ lastOp.auth.exc = "none" => LoginOf(lastOp.auth.matched)
    /\ \A u \in DOMAIN users :
          lower(users[u].email) # users[u].email => lastOp.auth.matched # u

RatesOp == lastOp.kind = "rates"

\* C27: StoreExchangeRatesView.post enqueues the task, with the id of the
\* resolved user, exactly when request.app_user resolves to a SuperAdmin or
\* an Operator, confirmed or not; any other resolved user is refused as
\* forbidden, an identity that does not resolve fails with a credentials
\* error, and neither enqueues a task.
C27_StoreRatesGate ==
    RatesOp =>
    /\ lastOp.view.enqueued # <<>> =>
          /\ ActorResolved /\ ActorRow.user_type \in RoleVariants
          /\ lastOp.view.enqueued = << <<request.vals["user"]>> >>
          /\ "user_id" \in request.cached
          /\ request.vals["user_id"] = request.vals["user"]
          /\ lastOp.exc = "none" /\ lastOp.view.status = 201
          /\ tasks # <<>> /\ tasks[Len(tasks)] = <<request.vals["user"]>>
    /\ (ActorResolved /\ ActorRow.user_type \in RoleVariants) =>
          lastOp.view.enqueued # <<>>
    /\ (ActorResolved /\ ActorRow.user_type \notin RoleVariants) =>
          lastOp.exc = "AuthForbidden" /\ lastOp.view.enqueued = <<>>
    /\ ~ActorResolved =>
          lastOp.exc \in CredentialsErrors /\ lastOp.view.enqueued = <<>>

===========================================================================
